---- MODULE Spec2Model ----
(***************************************************************************)
(* Eye_tracker: the desktop blink tracker (src/desktop) and its backend    *)
(* (src/backend).                                                           *)
(*   eye_tracker.py  EyeTrackerWorker  the sampling loop of a worker thread *)
(*   main.py         MainWindow        the UI thread: sessions, timers      *)
(*   api_client.py   ApiClient         the buffer file and its flush        *)
(*   backend/main.py                   accounts, tokens, stored sessions    *)
(* State machines over one set of variables:                                *)
(*   DetectorSpec  the worker's loop alone, fed every frame sequence        *)
(*   ApiSpec       ApiClient's operations called in any order, with the     *)
(*                 outcomes of each POST and of each write of the file      *)
(*   Spec          MainWindow and its worker thread, the queued signals     *)
(*                 between them, and the ApiClient calls of stop_tracking   *)
(*   SessionsSpec, AveragesSpec, ZonesSpec  Spec over consecutive sessions, *)
(*                 their resource samples, hosts of several UTC offsets     *)
(*   StepsSpec     stop_tracking taken one ApiClient call at a time         *)
(*   RateSpec      check_blink_rate in every state of a session             *)
(*   AccountsSpec, BackendSpec  the backend's handlers called in any order  *)
(***************************************************************************)
EXTENDS Integers, Sequences, FiniteSets, TLC

\* ------------------------------------------------------------- bounds
\* frames one worker processes in Spec
MaxFrames == 3
\* frames fed to the detector in DetectorSpec
MaxDetFrames == 6
\* sessions finalized in Spec
MaxSessions == 1
\* resource samples accumulated by one session
MaxSamples == 1
\* clock ticks
MaxTime == 1
\* buffer_session calls in ApiSpec
MaxEnq == 3
\* minutes on the clock and check_blink_rate calls in RateSpec
MaxRateMinutes == 2
MaxChecks == 2
\* sessions in AveragesSpec, and samples each of them accumulates
MaxAvgSessions == 2
MaxAvgSamples == 2
\* sessions in SessionsSpec, and frames each of its workers processes
MaxSeqSessions == 2
MaxSeqFrames == 3
\* clients registering at once, ids given to users, rows of blink_sessions
MaxClients == 2
MaxUserId == 3
MaxStored == 2

\* ---------------------------------------------------------- constants
\* eye_tracker.py:29  self._closed_frames_threshold = 2
closed_frames_threshold == 2

\* main.py:335  if blink_rate < 10
low_blink_rate == 10

\* api_client.py:15  self._token = None
NoToken == ""
Tok == "tok"

\* what one tick of the 1 s timer may read from psutil (main.py:303-304)
ResourceSamples == {[cpu |-> 10, mem |-> 100], [cpu |-> 30, mem |-> 200]}

\* the outcomes of one requests.post of sync_buffer (api_client.py:112-121):
\*   "200"       the collector stored the row and answered 200
\*   "non200"    the collector answered another status and stored nothing
\*   "exception" the request raised before the collector stored anything
\*   "lost_ack"  the collector stored the row, the answer never arrived
\*               (timeout=10): the client sees an exception
PostOutcomes == {"200", "non200", "exception", "lost_ack"}

\* the outcomes of one _save_buffer (api_client.py:70-75):
\*   "ok"          the file holds the rows
\*   "open_error"  open() raised: the file is as it was, the error swallowed
\*   "write_error" open(.., "w") truncated the file, json.dump raised part
\*                 way: the file is partial, the error swallowed
\*   "crash"       the process died between the truncation and the end of
\*                 the dump: the file is partial
SaveOutcomes == {"ok", "open_error", "write_error", "crash"}

VARIABLES
    \* MainWindow; of its widgets only sync_label is kept (status_label and
    \* the buttons are texts no handler reads)
    tracking, blink_count, session_start, cpu_samples, mem_samples,
    sync_label,
    \* where the UI thread is: "idle" in its event loop, "waiting" inside
    \* stop_tracking at tracker_thread.wait() (main.py:240)
    ui_pc,
    \* EyeTrackerWorker (eye_tracker.py:19-30); w_pc is the worker thread's
    \* position: "none" no worker, "pending" thread started and start() not
    \* yet entered, "loop" at the head of the while loop, "done" start()
    \* has returned
    w_pc, w_running, w_blink_count, closed_consec_frames, eyes_were_open,
    \* the queued signals from the worker thread to the UI thread
    ui_events,
    \* ApiClient (api_client.py:15) and the file at BUFFER_PATH
    token, buffer_file,
    \* the collector: the rows it stored, in the order of their first arrival
    received,
    \* the clock (datetime.now) and the host's UTC offset
    now, tz,
    \* history: the frames the current worker has processed, the number of
    \* blink_count_updated signals it emitted
    frames, emitted,
    \* history: sessions opened; the rows whose buffer_session returned, in
    \* order; the rows the client saw acknowledged with 200
    n_sessions, enqueued, acked,
    \* history: the POSTs of the last sync_buffer, what it returned or that
    \* it raised, the number of rows in the buffer when it was called; the last write of the
    \* file; the last start_tracking or stop_tracking call, when it was made
    \* in a state that does not allow it, with what it returned; the
    \* buffer_session and sync_buffer calls made by stop_tracking
    last_flush, last_write, last_invalid, n_buffer, n_sync, sync_tick,
    \* history: at the last finalization, the count written to the session
    \* and the number of signals its worker had emitted
    last_final,
    \* history: the samples the 1 s timer has read while the current session
    \* was active; the calls of check_blink_rate so far and whether the last
    \* one raised the low-rate alert
    taken, alert,
    \* the backend (backend/main.py): the rows of the tables users and
    \* blink_sessions; the registrations between their lookup and their
    \* commit; the last response sent
    users, blink_sessions, registering, response,
    \* history: the access tokens login has issued; the sessions POST
    \* /blink-sessions has accepted, with the account and the values
    \* submitted; the email and the password each account was registered with
    issued, accepted, credentials,
    \* ApiClient: the calls of buffer_session and sync_buffer that have
    \* loaded the buffer file and not yet rewritten it, with the rows loaded
    calls

ui_vars == <<tracking, blink_count, session_start, cpu_samples, mem_samples,
             sync_label, ui_pc>>
worker_vars == <<w_pc, w_running, w_blink_count, closed_consec_frames,
                 eyes_were_open, frames, emitted>>
api_vars == <<token, buffer_file, received, enqueued, acked,
              last_flush, last_write, sync_tick>>
call_vars == <<last_invalid, n_buffer, n_sync, n_sessions, last_final,
               taken, alert>>
clock_vars == <<now, tz>>
backend_vars == <<users, blink_sessions, registering, response, issued,
                  accepted, credentials>>
vars == <<ui_vars, worker_vars, ui_events, api_vars, call_vars, clock_vars,
          backend_vars, calls>>

\* ------------------------------------------------------------ helpers
RECURSIVE Sum(_)
Sum(s) == IF s = <<>> THEN 0 ELSE Head(s) + Sum(Tail(s))

RECURSIVE Gcd(_, _)
Gcd(a, b) == IF b = 0 THEN a ELSE Gcd(b, a % b)

\* a / b of two non-negative numbers, b > 0, as the reduced fraction
Div(a, b) == LET g == Gcd(a, b) IN [num |-> a \div g, den |-> b \div g]
\* the float 0.0
Zero == [num |-> 0, den |-> 1]

Range(s) == {s[i] : i \in 1..Len(s)}

BlinkMsg(n) == [kind |-> "blink", n |-> n, text |-> ""]
StatusMsg(m) == [kind |-> "status", n |-> 0, text |-> m]

\* ------------------------------------------------- EyeTrackerWorker
\* the test without the threshold: any closed frame before the open one
IsBlinkNoDebounce(eyes_open, closed, were_open) ==
    eyes_open /\ closed >= 1 /\ were_open = FALSE

\* the test crediting the blink on the closed frame that reaches the
\* threshold, not on the reopening
IsBlinkAtThreshold(eyes_open, closed, were_open) ==
    ~eyes_open /\ closed + 1 = closed_frames_threshold

\* eye_tracker.py:67-75: the test that credits a blink on an open frame
IsBlink(eyes_open, closed, were_open) ==
    eyes_open /\ closed >= closed_frames_threshold /\ were_open = FALSE

\* the detector's fields after __init__ has run
\* (eye_tracker.py:20, 28, 30)
FreshDetector == [count |-> 0, closed |-> 0, were_open |-> TRUE]

\* a loop that leaves the counter of closed frames as it is on an open frame
DetectorStepNoReset(d, eyes_open) ==
    [count |-> IF IsBlink(eyes_open, d.closed, d.were_open)
               THEN d.count + 1 ELSE d.count,
     closed |-> IF eyes_open THEN d.closed ELSE d.closed + 1,
     were_open |-> eyes_open]

\* eye_tracker.py:65-81: the detector's fields after one frame
DetectorStep(d, eyes_open) ==
    LET blink == IsBlink(eyes_open, d.closed, d.were_open) IN
    [count |-> IF blink THEN d.count + 1 ELSE d.count,
     closed |-> IF ~eyes_open THEN d.closed + 1 ELSE 0,
     were_open |-> eyes_open]

\* the detector's fields after the frames fs, one after the other
RECURSIVE DetectorRun(_, _)
DetectorRun(d, fs) ==
    IF fs = <<>> THEN d
    ELSE DetectorRun(DetectorStep(d, Head(fs)), Tail(fs))

\* the detector of the running worker
Detector ==
    [count |-> w_blink_count, closed |-> closed_consec_frames,
     were_open |-> eyes_were_open]

\* eye_tracker.py:65-81: one frame through the detector
ProcessFrame(eyes_open) ==
    LET d == DetectorStep(Detector, eyes_open)
        blink == d.count # w_blink_count
    IN
    /\ closed_consec_frames' = d.closed
    /\ w_blink_count' = d.count
    /\ ui_events' = IF blink
                    THEN Append(ui_events, BlinkMsg(d.count))
                    ELSE ui_events
    /\ emitted' = IF blink THEN emitted + 1 ELSE emitted
    /\ eyes_were_open' = d.were_open
    /\ frames' = Append(frames, eyes_open)

\* eye_tracker.py:50-92: one iteration of the loop whose read succeeded
LoopFrame(bound) ==
    /\ w_pc = "loop"
    /\ w_running
    /\ Len(frames) < bound
    /\ \E eyes_open \in BOOLEAN : ProcessFrame(eyes_open)
    /\ UNCHANGED <<w_pc, w_running>>
    /\ UNCHANGED <<ui_vars, api_vars, call_vars, clock_vars, backend_vars, calls>>

\* ---------------------------------------------------------- ApiClient
\* datetime.isoformat() (api_client.py:81-82): an aware datetime prints its
\* offset, a naive one prints none
IsoFormat(dt) == [t |-> dt.t, offset |-> IF dt.aware THEN "+00:00" ELSE ""]

\* api_client.py:80-86: the dict buffer_session appends
SessionRow(started_at, ended_at, count, avg_cpu, avg_mem) ==
    [started_at |-> IsoFormat(started_at), ended_at |-> IsoFormat(ended_at),
     blink_count |-> count, avg_cpu |-> avg_cpu, avg_memory_mb |-> avg_mem]

\* the file at BUFFER_PATH: absent, or the JSON text of rows, complete or
\* cut short (a cut text holds no row json.load can return)
NoFile == [exists |-> FALSE, complete |-> FALSE, rows |-> <<>>]
FileOf(rows) == [exists |-> TRUE, complete |-> TRUE, rows |-> rows]
PartialFile == [exists |-> TRUE, complete |-> FALSE, rows |-> <<>>]

\* api_client.py:61-68
LoadBuffer(f) ==
    IF ~f.exists THEN <<>>
    ELSE IF f.complete THEN f.rows
    ELSE <<>>

\* api_client.py:70-75
SaveBuffer(f, rows, outcome) ==
    CASE outcome = "ok" -> FileOf(rows)
      [] outcome = "open_error" -> f
      [] OTHER -> PartialFile

\* api_client.py:77-88: the file after buffer_session
BufferSessionFile(f, row, outcome) ==
    SaveBuffer(f, Append(LoadBuffer(f), row), outcome)

\* api_client.py:114-121: whether the row of a POST stays in `remaining`
StaysBuffered(outcome) == outcome # "200"

\* whether the collector stored the row of a POST
Stored(outcome) == outcome \in {"200", "lost_ack"}

\* a sync_buffer whose try block lets what requests.post raises through
EscapesUncaught(outcome) == outcome \in {"exception", "lost_ack"}

\* api_client.py:112-121: whether the outcome of a POST leaves sync_buffer
\* as an exception; `except Exception` catches all that requests raises
Escapes(outcome) == FALSE

\* api_client.py:108-121: the loop over the rows, outs[i] the outcome of
\* the POST of rows[i]; an exception that escapes ends the loop
RECURSIVE SyncLoop(_, _, _)
SyncLoop(rows, outs, acc) ==
    IF rows = <<>> THEN acc
    ELSE LET row == Head(rows)
             o == Head(outs)
             attempt == [row |-> row, ok |-> (o = "200"),
                         stored |-> Stored(o)]
         IN IF Escapes(o)
            THEN [acc EXCEPT !.attempts = Append(acc.attempts, attempt),
                             !.raised = TRUE]
            ELSE SyncLoop(Tail(rows), Tail(outs),
                   [sent |-> IF StaysBuffered(o) THEN acc.sent
                             ELSE acc.sent + 1,
                    remaining |-> IF StaysBuffered(o)
                                  THEN Append(acc.remaining, row)
                                  ELSE acc.remaining,
                    attempts |-> Append(acc.attempts, attempt),
                    raised |-> FALSE])

\* sync_buffer without its test of the token
HasTokenAlways(tok) == TRUE

\* api_client.py:96: the test `self._token` of sync_buffer
HasToken(tok) == tok # NoToken

\* api_client.py:91-128: sync_buffer's return value, the file it leaves
\* and the POSTs it made
SyncBufferResult(tok, f, outs, save) ==
    LET rows == LoadBuffer(f)
        none == [sent |-> 0, file |-> f, attempts |-> <<>>, wrote |-> FALSE,
                 remaining |-> rows, raised |-> FALSE]
    IN IF ~HasToken(tok) THEN none
       ELSE IF rows = <<>> THEN none
       ELSE LET r == SyncLoop(rows, outs,
                        [sent |-> 0, remaining |-> <<>>, attempts |-> <<>>,
                         raised |-> FALSE])
            IN IF r.raised
               THEN [sent |-> 0, file |-> f, attempts |-> r.attempts,
                     wrote |-> FALSE, remaining |-> rows, raised |-> TRUE]
               ELSE [sent |-> r.sent,
                     file |-> SaveBuffer(f, r.remaining, save),
                     attempts |-> r.attempts, wrote |-> TRUE,
                     remaining |-> r.remaining, raised |-> FALSE]

\* the outcomes a flush of file f may meet
FlushOutcomes(f) == [1..Len(LoadBuffer(f)) -> PostOutcomes]

\* backend/main.py:222-239 stores every row it is POSTed; `received` lists
\* the rows in the order the collector first stored each (storing a row
\* again adds a duplicate, which this history leaves out)
RECURSIVE Arrive(_, _)
Arrive(store, attempts) ==
    IF attempts = <<>> THEN store
    ELSE LET a == Head(attempts)
         IN Arrive(IF a.stored /\ a.row \notin Range(store)
                   THEN Append(store, a.row) ELSE store,
                   Tail(attempts))

\* the rows of one flush the collector answered with 200
AckedIn(attempts) ==
    {attempts[i].row : i \in {j \in 1..Len(attempts) : attempts[j].ok}}

\* the effect of one sync_buffer call on the file, the collector and the
\* history
DoSync(f, outs, save, lw) ==
    LET r == SyncBufferResult(token, f, outs, save) IN
    /\ buffer_file' = r.file
    /\ received' = Arrive(received, r.attempts)
    /\ acked' = acked \cup AckedIn(r.attempts)
    /\ last_flush' = [attempts |-> r.attempts, sent |-> r.sent,
                      buffered |-> Len(LoadBuffer(f)), raised |-> r.raised]
    /\ last_write' = IF r.wrote
                     THEN [pre |-> LoadBuffer(f), post |-> r.remaining,
                           crashed |-> (save = "crash")]
                     ELSE lw
    /\ sync_tick' = ~sync_tick

\* the arguments of the k-th buffer_session call of ApiSpec
SessionInputs(k) ==
    {[started_at |-> [t |-> k, aware |-> TRUE],
      ended_at |-> [t |-> k + 1, aware |-> FALSE],
      blink_count |-> 3 * k, avg_cpu |-> Div(10 * k, 1),
      avg_mem |-> Div(100 + 50 * k, 2)]}

\* api_client.py:41-58
ApiLogin ==
    /\ \E ok \in BOOLEAN : token' = IF ok THEN Tok ELSE token
    /\ UNCHANGED <<buffer_file, received, enqueued, acked,
                   last_flush, last_write, sync_tick>>
    /\ UNCHANGED <<ui_vars, worker_vars, ui_events, call_vars, clock_vars, backend_vars, calls>>

\* api_client.py:77-88, called with any session
ApiBufferSession ==
    /\ n_buffer < MaxEnq
    /\ \E a \in SessionInputs(n_buffer), save \in SaveOutcomes :
        LET row == SessionRow(a.started_at, a.ended_at, a.blink_count,
                              a.avg_cpu, a.avg_mem)
        IN /\ buffer_file' = BufferSessionFile(buffer_file, row, save)
           /\ enqueued' = IF save = "crash" THEN enqueued
                          ELSE Append(enqueued, row)
           /\ last_write' = [pre |-> LoadBuffer(buffer_file),
                             post |-> Append(LoadBuffer(buffer_file), row),
                             crashed |-> (save = "crash")]
    /\ n_buffer' = n_buffer + 1
    /\ UNCHANGED <<token, received, acked, last_flush,
                   sync_tick>>
    /\ UNCHANGED <<last_invalid, n_sync, n_sessions, last_final, taken,
                   alert>>
    /\ UNCHANGED <<ui_vars, worker_vars, ui_events, clock_vars, backend_vars, calls>>

\* api_client.py:91-128, called at any time
ApiSyncBuffer ==
    /\ \E outs \in FlushOutcomes(buffer_file), save \in SaveOutcomes :
           DoSync(buffer_file, outs, save, last_write)
    /\ UNCHANGED <<token, enqueued>>
    /\ UNCHANGED <<ui_vars, worker_vars, ui_events, call_vars, clock_vars, backend_vars, calls>>

\* ------------------------------------------- the worker thread
\* eye_tracker.py:32-48: start() up to the loop; the webcam opens or not
WorkerStart ==
    /\ w_pc = "pending"
    /\ \E opened \in BOOLEAN :
        IF w_running
        THEN /\ w_pc' = "done"
             /\ UNCHANGED <<w_running, w_blink_count, ui_events>>
        ELSE /\ w_blink_count' = 0
             /\ w_running' = opened
             /\ w_pc' = IF opened THEN "loop" ELSE "done"
             /\ ui_events' = ui_events \o
                    <<StatusMsg("Opening webcam..."),
                      StatusMsg(IF opened THEN "Tracking with webcam"
                                ELSE "Error: Cannot open webcam")>>
    /\ UNCHANGED <<closed_consec_frames, eyes_were_open, frames, emitted>>
    /\ UNCHANGED <<ui_vars, api_vars, call_vars, clock_vars, backend_vars, calls>>

WorkerFrame == LoopFrame(MaxFrames)

\* eye_tracker.py:51-54, 94-95: the read fails; the loop breaks with
\* _running still set
WorkerReadFails ==
    /\ w_pc = "loop"
    /\ w_running
    /\ w_pc' = "done"
    /\ ui_events' = ui_events \o <<StatusMsg("Error: Failed to read frame"),
                                   StatusMsg("Stopped tracking")>>
    /\ UNCHANGED <<w_running, w_blink_count, closed_consec_frames,
                   eyes_were_open, frames, emitted>>
    /\ UNCHANGED <<ui_vars, api_vars, call_vars, clock_vars, backend_vars, calls>>

\* eye_tracker.py:50, 94-95: the loop sees _running cleared
WorkerExit ==
    /\ w_pc = "loop"
    /\ ~w_running
    /\ w_pc' = "done"
    /\ ui_events' = Append(ui_events, StatusMsg("Stopped tracking"))
    /\ UNCHANGED <<w_running, w_blink_count, closed_consec_frames,
                   eyes_were_open, frames, emitted>>
    /\ UNCHANGED <<ui_vars, api_vars, call_vars, clock_vars, backend_vars, calls>>

\* ------------------------------------------------------- MainWindow
\* the mean without the test for no samples: sum([]) / len([]) is 0 / 0,
\* a ZeroDivisionError, written as the fraction of denominator 0
MeanUnguarded(samples) ==
    IF samples # <<>> THEN Div(Sum(samples), Len(samples))
    ELSE [num |-> 0, den |-> 0]

\* main.py:251-260: the mean of the samples, 0.0 of none
Mean(samples) ==
    IF samples # <<>> THEN Div(Sum(samples), Len(samples)) ELSE Zero

\* start_tracking without its guard
AlreadyTrackingUnguarded == FALSE

\* main.py:198: the guard of start_tracking
AlreadyTracking == tracking

\* stop_tracking without its guard
NotTrackingUnguarded == FALSE

\* main.py:231: the guard of stop_tracking
NotTracking == ~tracking

\* a worker kept from the session before, of which start() resets the count
\* alone (eye_tracker.py:37)
ReusedDetector ==
    [count |-> 0, closed |-> closed_consec_frames,
     were_open |-> eyes_were_open]

\* the accumulator left as the session before filled it
KeptSamples(old) == old

\* main.py:214-215: start_tracking empties each accumulator
NewSamples(old) == <<>>

\* main.py:219: start_tracking constructs the session's EyeTrackerWorker
SessionDetector == FreshDetector

\* main.py:197-228, in a run of at most `bound` sessions
StartTrackingUpTo(bound) ==
    /\ ui_pc = "idle"
    /\ \/ /\ AlreadyTracking
          /\ last_invalid' = [op |-> "start_tracking", result |-> "None"]
          /\ UNCHANGED <<ui_vars, worker_vars, n_sessions, taken>>
       \/ /\ ~AlreadyTracking
          /\ token = NoToken
          /\ UNCHANGED last_invalid
          /\ UNCHANGED <<tracking, blink_count, session_start, cpu_samples,
                         mem_samples, sync_label, ui_pc, worker_vars,
                         n_sessions, taken>>
       \/ /\ ~AlreadyTracking
          /\ token # NoToken
          /\ n_buffer < bound
          /\ tracking' = TRUE
          /\ blink_count' = 0
          /\ session_start' = <<now>>
          /\ cpu_samples' = NewSamples(cpu_samples)
          /\ mem_samples' = NewSamples(mem_samples)
          /\ w_pc' = "pending"
          /\ w_running' = FALSE
          /\ w_blink_count' = SessionDetector.count
          /\ closed_consec_frames' = SessionDetector.closed
          /\ eyes_were_open' = SessionDetector.were_open
          /\ frames' = <<>>
          /\ emitted' = 0
          /\ n_sessions' = n_sessions + 1
          /\ taken' = <<>>
          /\ last_invalid' = [op |-> "none", result |-> "None"]
          /\ UNCHANGED <<sync_label, ui_pc>>
    /\ UNCHANGED <<ui_events, api_vars, n_buffer, n_sync, last_final, alert,
                   clock_vars, backend_vars, calls>>

StartTracking == StartTrackingUpTo(MaxSessions)

\* main.py:230-240: stop_tracking up to tracker_thread.wait()
StopTracking ==
    /\ ui_pc = "idle"
    /\ \/ /\ NotTracking
          /\ last_invalid' = [op |-> "stop_tracking", result |-> "None"]
          /\ UNCHANGED <<ui_vars, w_running>>
       \/ /\ ~NotTracking
          /\ tracking' = FALSE
          /\ w_running' = IF w_pc # "none" THEN FALSE ELSE w_running
          /\ ui_pc' = "waiting"
          /\ last_invalid' = [op |-> "none", result |-> "None"]
          /\ UNCHANGED <<blink_count, session_start, cpu_samples,
                         mem_samples, sync_label>>
    /\ UNCHANGED <<w_pc, w_blink_count, closed_consec_frames, eyes_were_open,
                   frames, emitted>>
    /\ UNCHANGED <<ui_events, api_vars, n_buffer, n_sync, n_sessions,
                   last_final, taken, alert, clock_vars, backend_vars, calls>>

\* main.py:265: the count stop_tracking writes to the session
FinalCount == blink_count

\* a stop_tracking that does not join the thread
ThreadFinishedNoWait == TRUE

\* main.py:238-240: tracker_thread.wait() returns once the thread has
\* finished, at once when there is none
ThreadFinished == w_pc \in {"none", "done"}

\* main.py:249-260, 281: whether computing the averages raises, which
\* sends stop_tracking to its except branch
AveragesRaise == Mean(cpu_samples).den = 0 \/ Mean(mem_samples).den = 0

\* main.py:240-290: wait() has returned (at once when there is no thread);
\* the session is finalized, buffered and the buffer flushed. The except
\* branch at 281 is taken when the try block raises; buffer_session and
\* sync_buffer swallow what their I/O raises.
StopFinish ==
    /\ ui_pc = "waiting"
    /\ ThreadFinished
    /\ w_pc' = "none"
    /\ IF session_start # <<>> /\ AveragesRaise
       THEN /\ sync_label' = "Error"
            /\ UNCHANGED <<buffer_file, received, acked, last_flush,
                           last_write, sync_tick, enqueued, n_buffer, n_sync,
                           last_final>>
       ELSE IF session_start # <<>>
       THEN \E save1 \in SaveOutcomes \ {"crash"},
               save2 \in SaveOutcomes \ {"crash"} :
            LET row == SessionRow([t |-> session_start[1], aware |-> TRUE],
                                  [t |-> now + tz, aware |-> FALSE],
                                  FinalCount,
                                  Mean(cpu_samples), Mean(mem_samples))
                file1 == BufferSessionFile(buffer_file, row, save1)
                write1 == [pre |-> LoadBuffer(buffer_file),
                           post |-> Append(LoadBuffer(buffer_file), row),
                           crashed |-> FALSE]
            IN \E outs \in FlushOutcomes(file1) :
                LET result == SyncBufferResult(token, file1, outs, save2)
                    synced == result.sent
                IN /\ DoSync(file1, outs, save2, write1)
                   /\ enqueued' = Append(enqueued, row)
                   /\ n_buffer' = n_buffer + 1
                   /\ n_sync' = n_sync + 1
                   /\ last_final' = [count |-> row.blink_count,
                                     emitted |-> emitted,
                                     avg_cpu |-> row.avg_cpu,
                                     avg_mem |-> row.avg_memory_mb,
                                     n_samples |-> Len(cpu_samples)]
                   /\ sync_label' = IF result.raised THEN "Error"
                                    ELSE IF synced > 0 THEN "Online"
                                    ELSE "Offline"
       ELSE /\ UNCHANGED <<sync_label, buffer_file, received, acked,
                           last_flush, last_write, sync_tick, enqueued,
                           n_buffer, n_sync, last_final>>
    /\ ui_pc' = "idle"
    /\ UNCHANGED <<tracking, blink_count, session_start, cpu_samples,
                   mem_samples>>
    /\ UNCHANGED <<w_running, w_blink_count, closed_consec_frames,
                   eyes_were_open, frames, emitted>>
    /\ UNCHANGED <<ui_events, token, last_invalid, n_sessions, taken, alert,
                   clock_vars, backend_vars, calls>>

\* ------------------------- stop_tracking after wait(), call by call
\* The steps of main.py:249-280 one at a time: buffer_session loads the
\* file, buffer_session rewrites it, sync_buffer loads it, sync_buffer
\* POSTs its rows and rewrites it. ui_pc tells which step the UI thread
\* has reached: "buffer_session", "buffered", "sync_buffer".

\* main.py:249-268, api_client.py:78-87: the session is finalized and
\* buffer_session has loaded the rows and appended the session's
BufferSessionLoad ==
    /\ ui_pc = "waiting"
    /\ ThreadFinished
    /\ session_start # <<>>
    /\ ~AveragesRaise
    /\ w_pc' = "none"
    /\ LET row == SessionRow([t |-> session_start[1], aware |-> TRUE],
                             [t |-> now + tz, aware |-> FALSE],
                             FinalCount,
                             Mean(cpu_samples), Mean(mem_samples))
       IN calls' = [calls EXCEPT !.buffer_session =
                       <<[loaded |-> LoadBuffer(buffer_file), row |-> row]>>]
    /\ ui_pc' = "buffer_session"
    /\ UNCHANGED <<tracking, blink_count, session_start, cpu_samples,
                   mem_samples, sync_label>>
    /\ UNCHANGED <<w_running, w_blink_count, closed_consec_frames,
                   eyes_were_open, frames, emitted>>
    /\ UNCHANGED <<ui_events, api_vars, call_vars, clock_vars, backend_vars>>

\* api_client.py:88: buffer_session rewrites the file and returns
BufferSessionSave ==
    /\ ui_pc = "buffer_session"
    /\ calls.buffer_session # <<>>
    /\ \E save \in SaveOutcomes \ {"crash"} :
        LET call == calls.buffer_session[1]
            rows == Append(call.loaded, call.row)
        IN /\ buffer_file' = SaveBuffer(buffer_file, rows, save)
           /\ last_write' = [pre |-> call.loaded, post |-> rows,
                             crashed |-> FALSE]
           /\ enqueued' = Append(enqueued, call.row)
           /\ last_final' = [count |-> call.row.blink_count,
                             emitted |-> emitted,
                             avg_cpu |-> call.row.avg_cpu,
                             avg_mem |-> call.row.avg_memory_mb,
                             n_samples |-> Len(cpu_samples)]
    /\ n_buffer' = n_buffer + 1
    /\ calls' = [calls EXCEPT !.buffer_session = <<>>]
    /\ ui_pc' = "buffered"
    /\ UNCHANGED <<tracking, blink_count, session_start, cpu_samples,
                   mem_samples, sync_label>>
    /\ UNCHANGED <<token, received, acked, last_flush, sync_tick>>
    /\ UNCHANGED <<last_invalid, n_sync, n_sessions, taken, alert>>
    /\ UNCHANGED <<worker_vars, ui_events, clock_vars, backend_vars>>

\* a sync_buffer that a timer of its own calls, whatever the UI thread and
\* the worker are doing
SyncCalledAnytime == TRUE

\* main.py:270: sync_buffer is called by stop_tracking, and by nothing
\* else, once buffer_session has returned
SyncCalled == ui_pc = "buffered"

\* api_client.py:96-103: sync_buffer up to its load of the file; without
\* a token it loads nothing
SyncBufferLoad ==
    /\ SyncCalled
    /\ calls' = IF HasToken(token)
                THEN [calls EXCEPT !.sync_buffer =
                         <<[loaded |-> LoadBuffer(buffer_file)]>>]
                ELSE calls
    /\ ui_pc' = "sync_buffer"
    /\ UNCHANGED <<tracking, blink_count, session_start, cpu_samples,
                   mem_samples, sync_label>>
    /\ UNCHANGED <<worker_vars, ui_events, api_vars, call_vars, clock_vars,
                   backend_vars>>

\* api_client.py:105-128, main.py:270-280: the POSTs of the rows, the
\* rewrite of the file with those that remain, the label
SyncBufferSave ==
    /\ ui_pc = "sync_buffer"
    /\ \E outs \in FlushOutcomes(buffer_file),
          save \in SaveOutcomes \ {"crash"} :
        LET result == SyncBufferResult(token, buffer_file, outs, save)
            synced == result.sent
        IN /\ DoSync(buffer_file, outs, save, last_write)
           /\ sync_label' = IF result.raised THEN "Error"
                            ELSE IF synced > 0 THEN "Online"
                            ELSE "Offline"
    /\ n_sync' = n_sync + 1
    /\ calls' = [calls EXCEPT !.sync_buffer = <<>>]
    /\ ui_pc' = "idle"
    /\ UNCHANGED <<tracking, blink_count, session_start, cpu_samples,
                   mem_samples>>
    /\ UNCHANGED <<token, enqueued>>
    /\ UNCHANGED <<last_invalid, n_buffer, n_sessions, last_final, taken,
                   alert>>
    /\ UNCHANGED <<worker_vars, ui_events, clock_vars, backend_vars>>

\* main.py:292-299: the UI thread's event loop delivers the oldest queued
\* signal to its slot
DeliverEvent ==
    /\ ui_pc = "idle"
    /\ ui_events # <<>>
    /\ LET e == Head(ui_events) IN
        IF e.kind = "blink"
        THEN blink_count' = e.n
        ELSE UNCHANGED blink_count
    /\ ui_events' = Tail(ui_events)
    /\ UNCHANGED <<tracking, session_start, cpu_samples, mem_samples,
                   sync_label, ui_pc>>
    /\ UNCHANGED <<worker_vars, api_vars, call_vars, clock_vars, backend_vars, calls>>

\* main.py:301-308: the 1 s timer, a session accumulating at most `bound`
\* samples
UpdatePerformanceStatsUpTo(bound) ==
    /\ ui_pc = "idle"
    /\ \E s \in ResourceSamples :
        IF tracking
        THEN /\ Len(cpu_samples) < bound
             /\ cpu_samples' = Append(cpu_samples, s.cpu)
             /\ mem_samples' = Append(mem_samples, s.mem)
             /\ taken' = Append(taken, s)
        ELSE UNCHANGED <<cpu_samples, mem_samples, taken>>
    /\ UNCHANGED <<tracking, blink_count, session_start, sync_label,
                   ui_pc>>
    /\ UNCHANGED <<last_invalid, n_buffer, n_sync, n_sessions, last_final,
                   alert>>
    /\ UNCHANGED <<worker_vars, ui_events, api_vars, clock_vars, backend_vars, calls>>

UpdatePerformanceStats == UpdatePerformanceStatsUpTo(MaxSamples)

\* main.py:146: setup_system_tray shows the tray icon and nothing hides it;
\* QSystemTrayIcon.isVisible() returns the flag show() sets
TrayIconVisible == TRUE

\* the rate test with the threshold included
BlinkRateLowInclusive(count, minutes) == count <= low_blink_rate * minutes

\* main.py:332-335: blink_count / minutes < 10, for minutes > 0
BlinkRateLow(count, minutes) == count < low_blink_rate * minutes

\* main.py:325-342: whether check_blink_rate shows the alert, the clock
\* counting minutes
BlinkRateAlert ==
    IF ~tracking \/ session_start = <<>> THEN FALSE
    ELSE LET session_duration_minutes == now - session_start[1] IN
         /\ session_duration_minutes > 0
         /\ BlinkRateLow(blink_count, session_duration_minutes)
         /\ TrayIconVisible

\* main.py:325-342: the 60 s timer
CheckBlinkRate ==
    /\ ui_pc = "idle"
    /\ alert.n < MaxChecks
    /\ alert' = [n |-> alert.n + 1, raised |-> BlinkRateAlert]
    /\ UNCHANGED <<last_invalid, n_buffer, n_sync, n_sessions, last_final,
                   taken>>
    /\ UNCHANGED <<ui_vars, worker_vars, ui_events, api_vars, clock_vars, backend_vars, calls>>

\* time passes
Tick ==
    /\ now < MaxTime
    /\ now' = now + 1
    /\ UNCHANGED tz
    /\ UNCHANGED <<ui_vars, worker_vars, ui_events, api_vars, call_vars,
                   backend_vars, calls>>

\* ------------------------------------------------------- the backend
\* backend/main.py: the FastAPI application over the tables users and
\* blink_sessions. The body of a handler holds no await, so within one
\* server process a handler runs to its end once entered; register is
\* taken in two steps, its lookup and its commit, as they interleave when
\* several server processes share the database.
Emails == {"a@x", "b@x"}

\* a password: `head` is its first 72 bytes of UTF-8, `rest` the bytes after
\* them (main.py:131, 137: encode('utf-8')[:72])
Passwords ==
    {[head |-> "p", rest |-> ""], [head |-> "p", rest |-> "x"],
     [head |-> "q", rest |-> ""]}

Clients == 1..MaxClients

\* what get_user_by_email returns for no row (None)
NoUser == [id |-> 0, email |-> "", hashed_password |-> ""]

\* main.py:131, 137: the bytes bcrypt is given
Truncate(password) == password.head

\* main.py:135-138: bcrypt of the truncated password; the salt plays no
\* part in what checkpw answers
GetPasswordHash(password) == Truncate(password)

\* main.py:129-132
VerifyPassword(plain_password, hashed_password) ==
    Truncate(plain_password) = hashed_password

\* main.py:149-150
GetUserByEmail(us, email) ==
    IF \E u \in us : u.email = email
    THEN CHOOSE u \in us : u.email = email
    ELSE NoUser

\* main.py:153-157
AuthenticateUser(us, email, password) ==
    LET user == GetUserByEmail(us, email) IN
    IF user = NoUser \/ ~VerifyPassword(password, user.hashed_password)
    THEN NoUser
    ELSE user

\* a table whose inserts no index checks
EmailIsFreeAlways(us, email) == TRUE

\* main.py:27: email = Column(String, unique=True): the insert of a second
\* row with the email is refused
EmailIsFree(us, email) == \A u \in us : u.email # email

\* main.py:26, 38 over SQLite (main.py:16): an INTEGER PRIMARY KEY left
\* unset takes the largest id of the table plus one
NextId(ids) ==
    IF ids = {} THEN 1 ELSE (CHOOSE i \in ids : \A j \in ids : j <= i) + 1

\* main.py:76-79: UserOut
UserOut(user) == [id |-> user.id, email |-> user.email]

\* a response, with the request it answers
Response(op, request, status, body) ==
    [op |-> op, request |-> request, status |-> status, body |-> body]

\* the Authorization header of a request: none, a token that SECRET_KEY did
\* not sign, or a token login issued, which may have passed its exp
NoSub == ""
NoBearer ==
    [present |-> FALSE, sub |-> NoSub, signed |-> FALSE, expired |-> FALSE]

Bearers ==
    {NoBearer}
    \cup {[present |-> TRUE, sub |-> e, signed |-> FALSE, expired |-> FALSE] :
             e \in Emails \cup {NoSub}}
    \cup {[present |-> TRUE, sub |-> t.sub, signed |-> TRUE, expired |-> x] :
             t \in issued, x \in BOOLEAN}

\* a decode that checks neither the signature nor exp
DecodesUnverified(bearer) == bearer.present

\* main.py:57, 167: the header is there and jwt.decode accepts the token
Decodes(bearer) == bearer.present /\ bearer.signed /\ ~bearer.expired

\* main.py:160-178: the user of the request, NoUser when it answers 401
GetCurrentUser(bearer) ==
    IF ~Decodes(bearer) \/ bearer.sub = NoSub
    THEN NoUser
    ELSE GetUserByEmail(users, bearer.sub)

\* main.py:40-41: Column(DateTime) keeps no UTC offset
NaiveColumn(iso) == [t |-> iso.t, offset |-> ""]

\* main.py:228-238: the row as the table returns it after the commit
StoredSession(session_in) ==
    [session_in EXCEPT !.started_at = NaiveColumn(@),
                       !.ended_at = NaiveColumn(@)]

\* the bodies of POST /blink-sessions: a session as stop_tracking submits
\* it (started_at with the offset of UTC, ended_at without an offset), one
\* with naive timestamps and one with timestamps five hours east of UTC
Submissions ==
    {SessionRow([t |-> 0, aware |-> TRUE], [t |-> 1, aware |-> FALSE],
                2, Zero, Zero),
     SessionRow([t |-> 1, aware |-> FALSE], [t |-> 1, aware |-> FALSE],
                0, Zero, Zero),
     [started_at |-> [t |-> 1, offset |-> "+05:00"],
      ended_at |-> [t |-> 1, offset |-> "+05:00"],
      blink_count |-> 1, avg_cpu |-> Zero, avg_memory_mb |-> Zero]}

\* main.py:93-99: BlinkSessionOut
BlinkSessionOut(s) == [id |-> s.id, data |-> s.data]

\* main.py:250: rows ordered by started_at, latest first; rows of one
\* started_at in the order of their insertion
RECURSIVE OrderByStartedAtDesc(_)
OrderByStartedAtDesc(rows) ==
    IF rows = <<>> THEN <<>>
    ELSE LET later(r) == r.data.started_at.t > Head(rows).data.started_at.t
             rest == Tail(rows)
         IN OrderByStartedAtDesc(SelectSeq(rest, later))
            \o <<Head(rows)>>
            \o OrderByStartedAtDesc(SelectSeq(rest, LAMBDA r : ~later(r)))

\* a listing that leaves out the filter on the user
SessionsOfAnyone(rows, user_id) == rows

\* main.py:249: .filter(BlinkSession.user_id == current_user.id)
SessionsOf(rows, user_id) == SelectSeq(rows, LAMBDA r : r.user_id = user_id)

\* main.py:247-253
Listing(user) == OrderByStartedAtDesc(SessionsOf(blink_sessions, user.id))

Desktop == <<ui_vars, worker_vars, ui_events, api_vars, call_vars,
             clock_vars, calls>>

\* main.py:184-188: register up to its lookup, for the requests of `clients`
RegisterLookupBy(clients) ==
    /\ \E c \in clients, e \in Emails, p \in Passwords :
        /\ \A r \in registering : r.client # c
        /\ IF GetUserByEmail(users, e) # NoUser
           THEN /\ response' = Response("register", [email |-> e], 400, <<>>)
                /\ UNCHANGED registering
           ELSE /\ registering' = registering \cup
                        {[client |-> c, email |-> e, password |-> p]}
                /\ UNCHANGED response
    /\ UNCHANGED <<users, blink_sessions, issued, accepted, credentials>>
    /\ UNCHANGED Desktop

RegisterLookup == RegisterLookupBy(Clients)

\* main.py:190-199: the insert and its commit; the unique index refuses a
\* second row of the email, commit raises IntegrityError and the request
\* is answered 500
RegisterCommit ==
    /\ \E r \in registering :
        /\ registering' = registering \ {r}
        /\ IF EmailIsFree(users, r.email)
           THEN LET user == [id |-> NextId({u.id : u \in users}),
                             email |-> r.email,
                             hashed_password |-> GetPasswordHash(r.password)]
                IN /\ user.id <= MaxUserId
                   /\ users' = users \cup {user}
                   /\ credentials' = credentials \cup
                          {[email |-> r.email, password |-> r.password]}
                   /\ response' = Response("register", [email |-> r.email], 200,
                                            <<UserOut(user)>>)
           ELSE /\ response' = Response("register", [email |-> r.email], 500, <<>>)
                /\ UNCHANGED <<users, credentials>>
    /\ UNCHANGED <<blink_sessions, issued, accepted>>
    /\ UNCHANGED Desktop

\* main.py:202-214
LoginForAccessToken ==
    /\ \E e \in Emails, p \in Passwords :
        LET user == AuthenticateUser(users, e, p) IN
        IF user = NoUser
        THEN /\ response' = Response("login", [email |-> e, password |-> p],
                                     401, <<>>)
             /\ UNCHANGED issued
        ELSE /\ response' = Response("login", [email |-> e, password |-> p],
                                     200, <<[sub |-> user.email]>>)
             /\ issued' = issued \cup {[sub |-> user.email]}
    /\ UNCHANGED <<users, blink_sessions, registering, accepted, credentials>>
    /\ UNCHANGED Desktop

\* main.py:217-219
ReadMe ==
    /\ \E bearer \in Bearers :
        LET current_user == GetCurrentUser(bearer) IN
        response' = IF current_user = NoUser
                    THEN Response("read_me", bearer, 401, <<>>)
                    ELSE Response("read_me", bearer, 200, <<UserOut(current_user)>>)
    /\ UNCHANGED <<users, blink_sessions, registering, issued, accepted,
                   credentials>>
    /\ UNCHANGED Desktop

\* main.py:222-239
CreateBlinkSession ==
    /\ \E bearer \in Bearers, session_in \in Submissions :
        LET current_user == GetCurrentUser(bearer) IN
        IF current_user = NoUser
        THEN /\ response' = Response("create_blink_session", bearer, 401, <<>>)
             /\ UNCHANGED <<blink_sessions, accepted>>
        ELSE LET session ==
                     [id |-> NextId({s.id : s \in Range(blink_sessions)}),
                      user_id |-> current_user.id,
                      data |-> StoredSession(session_in)]
             IN /\ Len(blink_sessions) < MaxStored
                /\ blink_sessions' = Append(blink_sessions, session)
                /\ accepted' = accepted \cup
                        {[id |-> session.id, user_id |-> current_user.id,
                          submitted |-> session_in]}
                /\ response' = Response("create_blink_session", bearer, 200,
                                        <<BlinkSessionOut(session)>>)
    /\ UNCHANGED <<users, registering, issued, credentials>>
    /\ UNCHANGED Desktop

\* main.py:242-253
ListMyBlinkSessions ==
    /\ \E bearer \in Bearers :
        LET current_user == GetCurrentUser(bearer) IN
        response' =
            IF current_user = NoUser
            THEN Response("list_my_blink_sessions", bearer, 401, <<>>)
            ELSE Response("list_my_blink_sessions", bearer, 200,
                          [i \in 1..Len(Listing(current_user)) |->
                               BlinkSessionOut(Listing(current_user)[i])])
    /\ UNCHANGED <<users, blink_sessions, registering, issued, accepted,
                   credentials>>
    /\ UNCHANGED Desktop

\* main.py:294-307: the account and its sessions are deleted; the history
\* of what the account had accepted goes with it
DeleteUserAccount ==
    /\ \E bearer \in Bearers :
        LET current_user == GetCurrentUser(bearer) IN
        IF current_user = NoUser
        THEN /\ response' = Response("delete_user_account", bearer, 401, <<>>)
             /\ UNCHANGED <<users, blink_sessions, accepted, credentials>>
        ELSE /\ blink_sessions' =
                    SelectSeq(blink_sessions,
                              LAMBDA s : s.user_id # current_user.id)
             /\ users' = users \ {current_user}
             /\ accepted' = {a \in accepted : a.user_id # current_user.id}
             /\ credentials' =
                    {c \in credentials : c.email # current_user.email}
             /\ response' = Response("delete_user_account", bearer, 200, <<>>)
    /\ UNCHANGED <<registering, issued>>
    /\ UNCHANGED Desktop

\* main.py:49: the tables as create_all leaves them
BackendInit ==
    /\ users = {}
    /\ blink_sessions = <<>>
    /\ registering = {}
    /\ response = Response("none", <<>>, 0, <<>>)
    /\ issued = {}
    /\ accepted = {}
    /\ credentials = {}

\* ApiClient: no call has the buffer file loaded
NoCalls == [buffer_session |-> <<>>, sync_buffer |-> <<>>]

\* ---------------------------------------------------------- the states
\* main.py:24-37, eye_tracker.py:19-30, api_client.py:15-16: the state
\* after construction; the token file of an earlier run may hold a token
InitWith(tokens, offsets) ==
    /\ tracking = FALSE
    /\ blink_count = 0
    /\ session_start = <<>>
    /\ cpu_samples = <<>>
    /\ mem_samples = <<>>
    /\ sync_label = "Online"
    /\ ui_pc = "idle"
    /\ w_pc = "none"
    /\ w_running = FALSE
    /\ w_blink_count = 0
    /\ closed_consec_frames = 0
    /\ eyes_were_open = TRUE
    /\ ui_events = <<>>
    /\ token \in tokens
    /\ buffer_file = NoFile
    /\ received = <<>>
    /\ now = 0
    /\ tz \in offsets
    /\ frames = <<>>
    /\ emitted = 0
    /\ n_sessions = 0
    /\ enqueued = <<>>
    /\ acked = {}
    /\ last_flush = [attempts |-> <<>>, sent |-> 0, buffered |-> 0,
                     raised |-> FALSE]
    /\ last_write = [pre |-> <<>>, post |-> <<>>, crashed |-> FALSE]
    /\ last_invalid = [op |-> "none", result |-> "None"]
    /\ last_final = [count |-> 0, emitted |-> 0, avg_cpu |-> Zero,
                     avg_mem |-> Zero, n_samples |-> 0]
    /\ n_buffer = 0
    /\ n_sync = 0
    /\ taken = <<>>
    /\ alert = [n |-> 0, raised |-> FALSE]
    /\ sync_tick = FALSE
    /\ BackendInit
    /\ calls = NoCalls

Init == InitWith({NoToken, Tok}, {0})

ApiInit == InitWith({NoToken, Tok}, {0})

ApiNext ==
    \/ ApiLogin
    \/ ApiBufferSession
    \/ ApiSyncBuffer

ApiSpec == ApiInit /\ [][ApiNext]_vars

\* the worker's loop fed every frame sequence: one session is started, its
\* worker opens the webcam and reads frames
DetectorInit == InitWith({NoToken, Tok}, {0})

DetectorNext ==
    \/ StartTracking
    \/ WorkerStart
    \/ LoopFrame(MaxDetFrames)

DetectorSpec == DetectorInit /\ [][DetectorNext]_vars

\* sessions one after the other, each with a worker of its own: what the
\* detector and the buffer file carry from one session into the next
SessionsNext ==
    \/ StartTrackingUpTo(MaxSeqSessions)
    \/ StopTracking
    \/ StopFinish
    \/ WorkerStart
    \/ LoopFrame(MaxSeqFrames)
    \/ WorkerExit
    \/ DeliverEvent

SessionsSpec == Init /\ [][SessionsNext]_vars

\* sessions one after the other, stop_tracking taken call by call
StepsNext ==
    \/ StartTrackingUpTo(MaxSeqSessions)
    \/ StopTracking
    \/ BufferSessionLoad
    \/ BufferSessionSave
    \/ SyncBufferLoad
    \/ SyncBufferSave
    \/ WorkerStart
    \/ LoopFrame(MaxSeqFrames)
    \/ WorkerReadFails
    \/ WorkerExit
    \/ DeliverEvent

StepsSpec == Init /\ [][StepsNext]_vars

\* the blink counts check_blink_rate is given in RateSpec
RateBlinks == {0, 3, 19, 20, 21}

\* check_blink_rate called in any state of the session, the count and the
\* clock: no session yet, a session active or stopped, started before,
\* at or (the wall clock set back) after the present minute
RateInit ==
    /\ tracking \in BOOLEAN
    /\ session_start \in {<<>>} \cup {<<t>> : t \in 0..MaxRateMinutes}
    /\ tracking => session_start # <<>>
    /\ blink_count \in RateBlinks
    /\ now \in 0..MaxRateMinutes
    /\ cpu_samples = <<>>
    /\ mem_samples = <<>>
    /\ sync_label = "Online"
    /\ ui_pc = "idle"
    /\ w_pc = IF tracking THEN "loop" ELSE "none"
    /\ w_running = tracking
    /\ w_blink_count = blink_count
    /\ closed_consec_frames = 0
    /\ eyes_were_open = TRUE
    /\ ui_events = <<>>
    /\ token = Tok
    /\ buffer_file = NoFile
    /\ received = <<>>
    /\ tz = 0
    /\ frames = <<>>
    /\ emitted = blink_count
    /\ n_sessions = IF session_start # <<>> THEN 1 ELSE 0
    /\ enqueued = <<>>
    /\ acked = {}
    /\ last_flush = [attempts |-> <<>>, sent |-> 0, buffered |-> 0,
                     raised |-> FALSE]
    /\ last_write = [pre |-> <<>>, post |-> <<>>, crashed |-> FALSE]
    /\ last_invalid = [op |-> "none", result |-> "None"]
    /\ last_final = [count |-> 0, emitted |-> 0, avg_cpu |-> Zero,
                     avg_mem |-> Zero, n_samples |-> 0]
    /\ n_buffer = 0
    /\ n_sync = 0
    /\ sync_tick = FALSE
    /\ BackendInit
    /\ calls = NoCalls
    /\ taken = <<>>
    /\ alert = [n |-> 0, raised |-> FALSE]

RateNext == CheckBlinkRate

RateSpec == RateInit /\ [][RateNext]_vars

\* sessions one after the other and the 1 s timer, with workers that
\* open the webcam or fail to and are stopped before a frame is processed
AveragesNext ==
    \/ StartTrackingUpTo(MaxAvgSessions)
    \/ StopTracking
    \/ StopFinish
    \/ WorkerStart
    \/ WorkerExit
    \/ DeliverEvent
    \/ UpdatePerformanceStatsUpTo(MaxAvgSamples)

AveragesSpec == Init /\ [][AveragesNext]_vars

\* the backend before its first request, the desktop application idle
ServerInit == InitWith({NoToken}, {0})

\* the accounts: registrations of several clients at once, logins, reads
\* and deletions
AccountsNext ==
    \/ RegisterLookup
    \/ RegisterCommit
    \/ LoginForAccessToken
    \/ ReadMe
    \/ DeleteUserAccount

AccountsSpec == ServerInit /\ [][AccountsNext]_vars

\* the backend's handlers called in any order, one registration at a time
BackendNext ==
    \/ RegisterLookupBy({1})
    \/ RegisterCommit
    \/ LoginForAccessToken
    \/ ReadMe
    \/ CreateBlinkSession
    \/ ListMyBlinkSessions
    \/ DeleteUserAccount

BackendSpec == ServerInit /\ [][BackendNext]_vars

Next ==
    \/ StartTracking
    \/ StopTracking
    \/ StopFinish
    \/ WorkerStart
    \/ WorkerFrame
    \/ WorkerReadFails
    \/ WorkerExit
    \/ DeliverEvent
    \/ UpdatePerformanceStats
    \/ Tick

Spec == Init /\ [][Next]_vars

\* the UTC offsets of the host, in the unit of the clock: west of Greenwich,
\* on it, east of it
HostOffsets == {-1, 0, 1}

\* Spec on a host of any of these offsets, a token held
ZonesInit == InitWith({Tok}, HostOffsets)

ZonesSpec == ZonesInit /\ [][Next]_vars

\* ------------------------------------------------- fair specifications
\* The worker thread runs whenever it can, the UI thread's event loop
\* delivers what is queued and returns from wait() once the thread has
\* finished. Nothing obliges the user to click, the webcam to fail or the
\* timers' samples to arrive.
FairSpec ==
    /\ Init
    /\ [][Next]_vars
    /\ WF_vars(WorkerStart)
    /\ WF_vars(WorkerExit)
    /\ WF_vars(DeliverEvent)
    /\ WF_vars(StopFinish)

\* a sync_buffer call in which the collector accepts every row
ApiSyncAccepted ==
    /\ \E save \in SaveOutcomes :
           DoSync(buffer_file,
                  [i \in 1..Len(LoadBuffer(buffer_file)) |-> "200"],
                  save, last_write)
    /\ UNCHANGED <<token, enqueued>>
    /\ UNCHANGED <<ui_vars, worker_vars, ui_events, call_vars, clock_vars, backend_vars, calls>>

\* ApiClient under the hypotheses of at-least-once delivery: sync_buffer is
\* called again and again and meets, again and again, a collector that
\* accepts all it is sent
ApiFairSpec ==
    /\ ApiInit
    /\ [][ApiNext]_vars
    /\ WF_vars(ApiSyncAccepted)

\* ------------------------------------------------------------- claims
\* the number of consecutive closed frames right before frame i of fs
RECURSIVE ClosedRunBefore(_, _)
ClosedRunBefore(fs, i) ==
    IF i <= 1 THEN 0
    ELSE IF fs[i - 1] THEN 0
    ELSE 1 + ClosedRunBefore(fs, i - 1)

\* the open frames that end a closed run of at least the threshold
DebouncedReopenings(fs) ==
    {i \in 1..Len(fs) :
        fs[i] /\ ClosedRunBefore(fs, i) >= closed_frames_threshold}

\* the rows ApiSpec can enqueue
AllRows ==
    UNION {{SessionRow(a.started_at, a.ended_at, a.blink_count, a.avg_cpu,
                       a.avg_mem) : a \in SessionInputs(k)} :
               k \in 0..(MaxEnq - 1)}

\* C1: after any sequence of frames fed to a fresh detector, the number of
\* blink events emitted (and the worker's count) is the number of open
\* frames that directly follow at least closed_frames_threshold consecutive
\* closed frames; a single closed frame between two open ones adds none.
C1_BlinksAreDebouncedReopenings ==
    /\ emitted = Cardinality(DebouncedReopenings(frames))
    /\ w_blink_count = emitted

\* a run with a counted blink and an isolated closed frame
C1_Witness ==
    /\ emitted >= 1
    /\ \E i \in 2..(Len(frames) - 1) :
           ~frames[i] /\ frames[i - 1] /\ frames[i + 1]

\* C2: the blink_count of every finalized session is the number of blink
\* events its worker emitted before its loop ended, whatever the
\* interleaving of the queued count signals with stop_tracking.
C2_FinalCountIsEmitted == last_final.count = last_final.emitted

\* C3: a flush attempts no row after the first one that fails, so the
\* collector never stores a row before a row enqueued earlier.
C3_FlushStopsAtFirstFailure ==
    /\ \A i \in 1..Len(last_flush.attempts) :
           ~last_flush.attempts[i].ok => i = Len(last_flush.attempts)
    /\ \A i, j \in 1..Len(received) :
           i < j => received[i].started_at.t < received[j].started_at.t

\* C4: every session whose buffer_session returned is in the persisted
\* buffer or has been acknowledged with 200.
C4_NoSilentLoss ==
    \A i \in 1..Len(enqueued) :
        \/ enqueued[i] \in Range(LoadBuffer(buffer_file))
        \/ enqueued[i] \in acked

\* C5: with a credential held, flushes recurring and the collector
\* accepting, every session ever enqueued is eventually acknowledged.
C5_AtLeastOnceDelivery ==
    (<>[](token # NoToken)) =>
        \A r \in AllRows : [](r \in Range(enqueued) => <>(r \in acked))

\* C6: after a crash during a write of the buffer file, the buffer loaded
\* at restart is the complete contents before the write or the complete
\* contents the write was to leave.
C6_CrashLeavesOldOrNew ==
    last_write.crashed =>
        \/ LoadBuffer(buffer_file) = last_write.pre
        \/ LoadBuffer(buffer_file) = last_write.post

C8_StartWhileActiveIsNoOp ==
    [][(StartTracking /\ tracking)
          => UNCHANGED <<tracking, session_start, blink_count, cpu_samples,
                         mem_samples, worker_vars, n_sessions, ui_events>>]_vars

\* start_tracking was called during a session whose worker is sampling
C8_Witness ==
    /\ tracking
    /\ w_pc = "loop"
    /\ frames # <<>>
    /\ last_invalid.op = "start_tracking"

\* C9: a start_tracking call during a session and a stop_tracking call
\* outside one return an invalid-state error to the caller.
C9_InvalidStateSignalled ==
    last_invalid.op # "none" => last_invalid.result = "InvalidStateError"

\* C10: when the webcam cannot be opened or a read fails during a session,
\* the session is eventually finalized and buffered with no further click.
C10_SourceFailureFinalizes ==
    (tracking /\ w_pc = "done") ~> (~tracking /\ n_buffer = n_sessions)

\* C11: in every session the detector's count, closed-frame counter and
\* eyes-were-open flag are, after each frame, what a freshly constructed
\* detector has after the frames of this session alone; since this holds
\* after every frame, the events match frame by frame.
C11_ResetEqualsFresh ==
    /\ Detector = DetectorRun(FreshDetector, frames)
    /\ emitted = Detector.count

\* a second session that counted a blink after a first one that did
C11_Witness ==
    /\ n_sessions = 2
    /\ last_final.emitted >= 1
    /\ emitted >= 1
    /\ Len(frames) = MaxSeqFrames

\* the frames open, closed, closed, closed, open, open
ReopeningScenario == <<TRUE, FALSE, FALSE, FALSE, TRUE, TRUE>>

\* C12: fed open, closed, closed, closed, open, open, the detector emits
\* nothing on the first four frames, one event on the fifth and none on the
\* sixth; and whatever the frames, an open frame that directly follows an
\* open frame emits no event.
C12_ReopeningCountsOnce ==
    [][(frames' # frames) =>
          /\ (/\ Len(frames') <= Len(ReopeningScenario)
              /\ frames' = SubSeq(ReopeningScenario, 1, Len(frames')))
                => /\ emitted' = (IF Len(frames') >= 5 THEN 1 ELSE 0)
                   /\ w_blink_count' = emitted'
          /\ (/\ frames # <<>>
              /\ frames[Len(frames)]
              /\ frames'[Len(frames')])
                => /\ emitted' = emitted
                   /\ ui_events' = ui_events]_vars

\* the six frames of the scenario have been processed, with one event
C12_Witness ==
    /\ frames = ReopeningScenario
    /\ emitted = 1
    /\ w_blink_count = 1

\* the step is a sync_buffer call that returned and in which the collector
\* answered 200 to every POST made
AcceptedFlushStep ==
    /\ sync_tick' # sync_tick
    /\ ~(last_write'.crashed /\ last_write' # last_write)
    /\ \A i \in 1..Len(last_flush'.attempts) : last_flush'.attempts[i].ok

\* buffer_session(s) has just returned, called on an empty buffer with a
\* token held
EnqueuedOnEmpty(s) ==
    /\ token # NoToken
    /\ enqueued # <<>>
    /\ enqueued[Len(enqueued)] = s
    /\ last_write = [pre |-> <<>>, post |-> <<s>>, crashed |-> FALSE]

\* C13: buffer_session(s) on an empty buffer with a token held, followed
\* by a sync_buffer the collector accepts, makes exactly one POST, of the
\* five fields of s, returns 1 and leaves the buffer empty.
C13_EnqueueThenFlushDeliversOne ==
    [][\A s \in AllRows :
          (EnqueuedOnEmpty(s) /\ AcceptedFlushStep)
              => /\ Len(last_flush'.attempts) = 1
                 /\ last_flush'.attempts[1].row = s
                 /\ last_flush'.sent = 1
                 /\ LoadBuffer(buffer_file') = <<>>]_vars

\* the write of buffer_session before the step and the write of sync_buffer
\* in it, if any, left the file they were to leave
WritesSucceeded ==
    /\ LoadBuffer(buffer_file) = last_write.post
    /\ last_write' # last_write
          => LoadBuffer(buffer_file') = last_write'.post

\* the same when both writes of the file succeed
C13_WhenWritesSucceed ==
    [][\A s \in AllRows :
          (EnqueuedOnEmpty(s) /\ AcceptedFlushStep /\ WritesSucceeded)
              => /\ Len(last_flush'.attempts) = 1
                 /\ last_flush'.attempts[1].row = s
                 /\ last_flush'.sent = 1
                 /\ LoadBuffer(buffer_file') = <<>>]_vars

\* the step is a sync_buffer call that returned and in which POSTs were
\* made and every one of them failed
FailedFlushStep ==
    /\ sync_tick' # sync_tick
    /\ ~(last_write'.crashed /\ last_write' # last_write)
    /\ last_flush'.attempts # <<>>
    /\ \A i \in 1..Len(last_flush'.attempts) : ~last_flush'.attempts[i].ok

\* C14: a sync_buffer in which every POST fails returns 0 and leaves in the
\* persisted buffer the rows it held, in the same order.
C14_FailedFlushKeepsBuffer ==
    [][FailedFlushStep
          => /\ last_flush'.sent = 0
             /\ LoadBuffer(buffer_file') = LoadBuffer(buffer_file)]_vars

\* the same when the rewrite of the file succeeds
C14_WhenWritesSucceed ==
    [][(FailedFlushStep /\ LoadBuffer(buffer_file') = last_write'.post)
          => /\ last_flush'.sent = 0
             /\ LoadBuffer(buffer_file') = LoadBuffer(buffer_file)]_vars

\* C15: a sync_buffer call made with no token held makes no POST, returns 0
\* and leaves the buffer file as it was, whatever rows it holds.
C15_NoTokenNoSubmission ==
    [][(sync_tick' # sync_tick /\ token = NoToken)
          => /\ last_flush'.attempts = <<>>
             /\ last_flush'.sent = 0
             /\ received' = received
             /\ buffer_file' = buffer_file
             /\ last_write' = last_write]_vars

\* sync_buffer was called with no token on a buffer of several rows
C15_Witness ==
    /\ token = NoToken
    /\ sync_tick
    /\ last_flush.buffered >= 2
    /\ Len(LoadBuffer(buffer_file)) = last_flush.buffered

\* the step is the completion of a stop_tracking that finalized a session
FinalizeStep == ui_pc = "waiting" /\ ui_pc' = "idle" /\ n_buffer' # n_buffer

\* C16: the accumulators change only by a timer tick during a session,
\* which appends one sample to each, and by start_tracking, which empties
\* them; and the averages of a finalized session are the means of the
\* samples the timer read while that session was active, of no other.
C16_AveragesOverSessionSamples ==
    [][/\ (cpu_samples' # cpu_samples \/ mem_samples' # mem_samples)
            => \/ /\ tracking /\ tracking'
                  /\ \E x \in ResourceSamples :
                        /\ cpu_samples' = Append(cpu_samples, x.cpu)
                        /\ mem_samples' = Append(mem_samples, x.mem)
               \/ /\ ~tracking /\ tracking'
                  /\ cpu_samples' = <<>>
                  /\ mem_samples' = <<>>
       /\ FinalizeStep
            => /\ last_final'.avg_cpu =
                     Mean([i \in 1..Len(taken) |-> taken[i].cpu])
               /\ last_final'.avg_mem =
                     Mean([i \in 1..Len(taken) |-> taken[i].mem])
               /\ last_final'.n_samples = Len(taken)]_vars

\* a second session finalized with the mean of its own two different
\* samples, after a first session that had samples too
C16_Witness ==
    /\ n_buffer = 2
    /\ ui_pc = "idle"
    /\ Len(taken) = 2
    /\ taken[1] # taken[2]
    /\ last_final.avg_cpu = Div(40, 2)
    /\ Len(enqueued) = 2
    /\ enqueued[1].avg_cpu # Zero

\* C17: stop_tracking completing for a session with no resource sample
\* takes no except branch and buffers the session with avg_cpu = 0.0 and
\* avg_memory_mb = 0.0.
C17_NoSamplesAveragesZero ==
    [][(/\ ui_pc = "waiting" /\ ui_pc' = "idle"
        /\ session_start # <<>>
        /\ cpu_samples = <<>>)
          => /\ sync_label' # "Error"
             /\ n_buffer' = n_buffer + 1
             /\ enqueued'[Len(enqueued')].avg_cpu = Zero
             /\ enqueued'[Len(enqueued')].avg_memory_mb = Zero
             /\ last_final'.n_samples = 0]_vars

\* a session stopped before any tick of the timer has been finalized
C17_Witness ==
    /\ n_buffer = 1
    /\ ui_pc = "idle"
    /\ taken = <<>>
    /\ last_final.n_samples = 0
    /\ last_final.avg_cpu = Zero
    /\ last_final.avg_mem = Zero

\* C18: check_blink_rate raises the alert exactly when a session is
\* active, the minutes elapsed since its start are positive and the blinks
\* counted are fewer than 10 per elapsed minute: 3 blinks after 2 minutes
\* alert, 20 blinks after 2 minutes do not.
C18_LowRateAlertIff ==
    [][alert'.n # alert.n =>
          /\ alert'.raised <=>
                /\ tracking
                /\ session_start # <<>>
                /\ now - session_start[1] > 0
                /\ blink_count < 10 * (now - session_start[1])
          /\ (/\ tracking /\ session_start = <<0>> /\ now = 2
              /\ blink_count = 3) => alert'.raised
          /\ (/\ tracking /\ session_start = <<0>> /\ now = 2
              /\ blink_count = 20) => ~alert'.raised]_vars

\* the alert was raised for 3 blinks in the 2 minutes of an active session
C18_Witness ==
    /\ alert.n >= 1
    /\ alert.raised
    /\ tracking
    /\ session_start = <<0>>
    /\ now = 2
    /\ blink_count = 3

\* C19: whatever the outcome of each POST, sync_buffer returns a count (it
\* raises nothing), and stop_tracking, once the worker thread has ended,
\* completes with tracking off, no worker left, the token still held and
\* the label Online or Offline: start_tracking can be called again.
C19_DeliveryFailureNotFatal ==
    [][/\ sync_tick' # sync_tick
            => /\ ~last_flush'.raised
               /\ last_flush'.sent \in 0..Len(last_flush'.attempts)
       /\ (ui_pc = "waiting" /\ ui_pc' = "idle")
            => /\ ~tracking'
               /\ w_pc' = "none"
               /\ token' # NoToken
               /\ sync_label' \in {"Online", "Offline"}]_vars

\* stop_tracking has completed with a flush whose POST failed
C19_Witness ==
    /\ ui_pc = "idle"
    /\ ~tracking
    /\ n_sync = 1
    /\ last_flush.attempts # <<>>
    /\ ~last_flush.attempts[1].ok
    /\ sync_label = "Offline"

\* C20: when stop_tracking completes, the label says Online only if the
\* buffer is empty and the session just finalized was acknowledged, and
\* says Offline whenever a session remains buffered. Stated for the
\* completions in which both writes of the buffer file succeeded (the row was
\* in the buffer the flush loaded, and the file holds what the last write
\* was to leave).
C20_IndicatorTellsDelivered ==
    [][(/\ FinalizeStep
        /\ last_flush'.buffered = Len(LoadBuffer(buffer_file)) + 1
        /\ LoadBuffer(buffer_file') = last_write'.post)
          => /\ sync_label' = "Online"
                  => /\ LoadBuffer(buffer_file') = <<>>
                     /\ enqueued'[Len(enqueued')] \in acked'
             /\ LoadBuffer(buffer_file') # <<>>
                  => sync_label' = "Offline"]_vars

\* a step in which register answers
Registers == response' # response /\ response'.op = "register"

\* C21: no two rows of users share an email, whatever the interleaving of
\* the lookups and commits of concurrent registrations; a registration
\* adds a user only when it answers 200 and no user had its email, and a
\* registration whose lookup finds the email is answered 400.
C21_EmailsUnique ==
    /\ [](\A u1 \in users, u2 \in users : u1.email = u2.email => u1 = u2)
    /\ [][Registers =>
            LET email == response'.request.email
                registered == \E u \in users : u.email = email
            IN /\ registering' = registering => registered
               /\ registered => /\ response'.status # 200
                                /\ users' = users
               /\ registering' = registering
                     => response'.status = 400
               /\ response'.status = 200
                     => /\ ~registered
                        /\ \E u \in users' : /\ u.email = email
                                              /\ users' = users \cup {u}]_vars

\* two registrations of one email were between lookup and commit together:
\* the first committed, the second is refused by the index
C21_Witness ==
    /\ response.op = "register"
    /\ response.status = 500
    /\ \E u \in users : u.email = response.request.email
    /\ \E r \in registering : TRUE

\* the endpoints behind get_current_user
ProtectedOps ==
    {"read_me", "create_blink_session", "list_my_blink_sessions",
     "delete_user_account"}

\* a step in which a protected endpoint answers a request whose bearer is
\* no token that login issued, unexpired, for an account that exists
UnauthenticatedStep ==
    /\ response' # response
    /\ response'.op \in ProtectedOps
    /\ LET bearer == response'.request IN
       ~(/\ bearer.present /\ bearer.signed /\ ~bearer.expired
         /\ [sub |-> bearer.sub] \in issued
         /\ \E u \in users : u.email = bearer.sub)

\* a step in which login answers
LoginStep == response' # response /\ response'.op = "login"

\* C22: a protected endpoint called without a valid bearer token answers
\* 401 and leaves users and blink_sessions as they were; login answers 200
\* and issues a token exactly when it is given the email of an account and
\* the password the account was registered with, and 401 with no token
\* otherwise.
C22_TokensOnlyForCorrectPassword ==
    [][/\ UnauthenticatedStep
            => /\ response'.status = 401
               /\ users' = users
               /\ blink_sessions' = blink_sessions
       /\ LoginStep
            => /\ response'.status = 200
                    <=> [email |-> response'.request.email,
                         password |-> response'.request.password]
                            \in credentials
               /\ response'.status # 200
                    => response'.status = 401 /\ issued' = issued
               /\ issued' # issued => response'.status = 200]_vars

\* C22, the passwords compared as bcrypt is given them: what holds of login
\* is that the first 72 bytes of the password are those of the password
\* registered
C22_UpToTruncation ==
    [][/\ UnauthenticatedStep
            => /\ response'.status = 401
               /\ users' = users
               /\ blink_sessions' = blink_sessions
       /\ LoginStep
            => /\ response'.status = 200
                    <=> \E c \in credentials :
                            /\ c.email = response'.request.email
                            /\ Truncate(c.password)
                                 = Truncate(response'.request.password)
               /\ response'.status # 200
                    => response'.status = 401 /\ issued' = issued
               /\ issued' # issued => response'.status = 200]_vars

\* whether the listing of `user` holds the session of id `id`
Lists(user, id) == \E i \in 1..Len(Listing(user)) : Listing(user)[i].id = id

\* the listing of `user` holds the session `a` with the values `data`
ListsAs(user, a, data) ==
    \E i \in 1..Len(Listing(user)) :
        /\ Listing(user)[i].id = a.id
        /\ Listing(user)[i].data = data

\* C23: every session POST /blink-sessions accepted for an account is, as
\* long as the account exists, in the listing of that account with the
\* values submitted, and in the listing of no other user.
C23_AcceptedSessionListedToOwnerOnly ==
    \A a \in accepted, u \in users :
        IF u.id = a.user_id
        THEN ListsAs(u, a, a.submitted)
        ELSE ~Lists(u, a.id)

\* C23, the timestamps compared without their UTC offset
C23_UpToOffset ==
    \A a \in accepted, u \in users :
        IF u.id = a.user_id
        THEN ListsAs(u, a, [a.submitted EXCEPT !.started_at.offset = "",
                                               !.ended_at.offset = ""])
        ELSE ~Lists(u, a.id)

\* two accounts, each with a session it submitted
C23_TwoOwners ==
    \E a \in accepted, b \in accepted :
        /\ a.user_id # b.user_id
        /\ \E u \in users : u.id = a.user_id
        /\ \E u \in users : u.id = b.user_id

\* the calls of ApiClient that have loaded the file and not yet rewritten it
OpenCalls == {c \in DOMAIN calls : calls[c] # <<>>}

\* C24: when buffer_session is called the worker's thread has finished:
\* its loop has been told to stop and has returned, and from then on no
\* frame is processed until the next session starts.
C24_JoinedBeforeFinalizing ==
    /\ [](ui_pc \in {"buffer_session", "buffered", "sync_buffer"}
            => w_pc = "none")
    /\ [][/\ (ui_pc = "idle" /\ ui_pc' = "waiting") => ~w_running'
          /\ (ui_pc' = "buffer_session" /\ ui_pc # "buffer_session")
               => /\ ui_pc = "waiting"
                  /\ w_pc \in {"none", "done"}
          /\ (frames' # frames /\ frames' # <<>>)
               => /\ n_buffer < n_sessions
                  /\ ui_pc \in {"idle", "waiting"}]_vars

\* buffer_session is being called for a session whose worker processed
\* frames and counted a blink
C24_Witness ==
    /\ ui_pc = "buffer_session"
    /\ frames # <<>>
    /\ emitted > 0

\* C25: while sync_buffer is in progress no worker thread exists and no
\* session is active, and the step that makes its POSTs is a step of the
\* UI thread inside stop_tracking that leaves the worker's state alone.
C25_FlushOffTheSamplingThread ==
    /\ [](ui_pc = "sync_buffer" \/ calls.sync_buffer # <<>>
            => /\ w_pc = "none"
               /\ ~tracking)
    /\ [][sync_tick' # sync_tick
            => /\ ui_pc = "sync_buffer"
               /\ ui_pc' = "idle"
               /\ w_pc = "none"
               /\ UNCHANGED worker_vars]_vars

\* sync_buffer has loaded the rows of two sessions, the second of which
\* had a worker that processed frames
C25_Witness ==
    /\ ui_pc = "sync_buffer"
    /\ calls.sync_buffer # <<>>
    /\ Len(calls.sync_buffer[1].loaded) = 2
    /\ frames # <<>>

\* a step in which a call of ApiClient rewrites the file and returns
RewriteBy(c) == calls[c] # <<>> /\ calls'[c] = <<>>

\* C26: at most one of buffer_session and sync_buffer is between its load
\* of the buffer file and its rewrite of it, and the file a call rewrites
\* still holds what the call loaded: no rewrite undoes another call's.
C26_BufferCallsSerialized ==
    /\ [](Cardinality(OpenCalls) <= 1)
    /\ [][\A c \in DOMAIN calls :
            RewriteBy(c) => calls[c][1].loaded = LoadBuffer(buffer_file)]_vars

\* buffer_session has loaded a buffer that holds the row of an earlier
\* session, which the flush of that session left behind
C26_Witness ==
    /\ OpenCalls = {"buffer_session"}
    /\ calls.buffer_session[1].loaded # <<>>
    /\ n_sync > 0

\* the rows of a flush that were not acknowledged, in their order: rows[i]
\* is acknowledged when attempts[i] was answered 200
RECURSIVE NotAcknowledged(_, _)
NotAcknowledged(rows, attempts) ==
    IF rows = <<>> THEN <<>>
    ELSE LET rest == NotAcknowledged(Tail(rows),
                         IF attempts = <<>> THEN <<>> ELSE Tail(attempts))
         IN IF attempts # <<>> /\ Head(attempts).ok
            THEN rest
            ELSE <<Head(rows)>> \o rest

\* the step is a sync_buffer call that returned
FlushStep ==
    /\ sync_tick' # sync_tick
    /\ ~(last_write'.crashed /\ last_write' # last_write)

\* what C27 says of a flush of the rows `pre` that leaves the rows `post`
Conserved(pre, post, flush) ==
    /\ Len(flush.attempts) \in {0, Len(pre)}
    /\ \A i \in 1..Len(flush.attempts) : flush.attempts[i].row = pre[i]
    /\ post = NotAcknowledged(pre, flush.attempts)
    /\ flush.sent = Cardinality({i \in 1..Len(flush.attempts) :
                                    flush.attempts[i].ok})
    /\ flush.sent = Len(pre) - Len(post)

\* C27: after sync_buffer the buffer holds, in their order, the rows of the
\* buffer before it that were not acknowledged, and the count returned is
\* the number acknowledged, the length before minus the length after.
C27_FlushConservation ==
    [][FlushStep => Conserved(LoadBuffer(buffer_file),
                              LoadBuffer(buffer_file'), last_flush')]_vars

\* the same when the rewrite of the file, if sync_buffer made one, succeeds
C27_WhenWritesSucceed ==
    [][(/\ FlushStep
        /\ last_flush'.attempts # <<>>
               => LoadBuffer(buffer_file') = last_write'.post)
          => Conserved(LoadBuffer(buffer_file),
                       LoadBuffer(buffer_file'), last_flush')]_vars

\* a flush of three rows of which the second alone was acknowledged
C27_MiddleAcknowledged ==
    /\ Len(last_flush.attempts) = 3
    /\ ~last_flush.attempts[1].ok
    /\ last_flush.attempts[2].ok
    /\ ~last_flush.attempts[3].ok
    /\ Len(LoadBuffer(buffer_file)) = 2

\* C28: after every frame the counter of closed frames is positive
\* exactly when the frame was closed, and eyes_were_open is then false; it
\* is 0 after an open frame and before the first frame. So whenever the
\* counter has reached the threshold eyes_were_open is false, and on an
\* open frame the test of the counter alone decides the blink.
C28_ClosedCounterTellsLastFrame ==
    /\ frames = <<>> => closed_consec_frames = 0 /\ eyes_were_open
    /\ frames # <<>>
         => /\ closed_consec_frames > 0 <=> ~frames[Len(frames)]
            /\ eyes_were_open = frames[Len(frames)]
    /\ closed_consec_frames > 0 => ~eyes_were_open
    /\ IsBlink(TRUE, closed_consec_frames, eyes_were_open)
         <=> closed_consec_frames >= closed_frames_threshold

\* the counter has reached the threshold in a second run of closed frames,
\* after a blink was counted
C28_Witness ==
    /\ closed_consec_frames >= closed_frames_threshold
    /\ w_blink_count > 0
    /\ ~frames[Len(frames)]

\* C29: the blink count of the UI is 0 when a session starts and, while the
\* session is active, changes only to a count its own worker has emitted,
\* never to a lower one: a count signal of the session before, delivered
\* late, does not show in it.
C29_NoCountFromEarlierSession ==
    [][/\ n_sessions' # n_sessions => blink_count' = 0
       /\ (tracking /\ tracking' /\ blink_count' # blink_count)
            => /\ blink_count' > blink_count
               /\ blink_count' <= emitted]_vars

\* C30: every finalized session has its two timestamps in one
\* representation and ended_at not earlier than started_at, whatever the
\* UTC offset of the host.
C30_EndNotBeforeStart ==
    \A i \in 1..Len(enqueued) :
        /\ enqueued[i].started_at.offset = enqueued[i].ended_at.offset
        /\ enqueued[i].ended_at.t >= enqueued[i].started_at.t

\* C30, the representation left aside: the values of the two timestamps
C30_ValuesInOrder ==
    \A i \in 1..Len(enqueued) :
        enqueued[i].ended_at.t >= enqueued[i].started_at.t
====
